---------------------------- MODULE Spec2Model ----------------------------
(***************************************************************************)
(* Model of the `unzip` extractor of src/src/main.rs: extract(opt) opens   *)
(* the archive, ZipExtractor::get_extracted_files builds the plan,         *)
(* ZipExtractor::write_extracted_files executes it entry by entry against  *)
(* the filesystem, ZipExtractor::finish_progress_bar reports the count.    *)
(*                                                                         *)
(* Paths are the raw strings a PathBuf holds, as sequences of one          *)
(* character strings.  A location of the filesystem is the sequence of     *)
(* the directory names from "/" down to it; <<>> is "/" itself.            *)
(***************************************************************************)
EXTENDS Integers, Sequences, FiniteSets, TLC

VARIABLES
    opt,              \* Opt: input, output_dir, progress
    zip_file,         \* the input file: found, a valid archive, its entries
    fs,               \* the filesystem: its directories, its files' contents
    pc,               \* where the run is: "start", "enumerate", "write",
                      \* "done" (Ok returned), "aborted" (Err returned)
    output_dir,       \* ZipExtractor::output_dir
    i,                \* get_extracted_files: the next index of 0..len
    extracted_files,  \* the plan: the ExtractedFile records collected
    k,                \* write_extracted_files: the plan position of the loop
    progress_bar,     \* ZipExtractor::progress_bar
    result,           \* what ZipExtractor::extract returned
    ops,              \* the filesystem changes of the run, with their position
    fault,            \* the plan position whose filesystem call the
                      \* environment refuses, -1 for none
    fs0,              \* the filesystem when the run started
    run,              \* the number of the run
    prev              \* the result and filesystem of the run before

vars == <<opt, zip_file, fs, pc, output_dir, i, extracted_files, k,
          progress_bar, result, ops, fault, fs0, run, prev>>

\* ------------------------------------------------------------------ bounds

\* Longest archive of the exhaustive part of Init (number of entries).
MaxLen == 2

\* How many times main() is run, one after the other, on the same tree.
MaxRuns == 2

\* ------------------------------------------------------------ small helpers

Last(s) == s[Len(s)]

Front(s) == SubSeq(s, 1, Len(s) - 1)

IsPrefix(p, q) == Len(p) <= Len(q) /\ SubSeq(q, 1, Len(p)) = p

None == [some |-> FALSE]

Some(v) == [some |-> TRUE, val |-> v]

\* The pieces of s between the "/" characters, empty pieces included.
RECURSIVE SplitAt(_, _, _)
SplitAt(s, n, cur) ==
    IF n > Len(s) THEN <<cur>>
    ELSE IF s[n] = "/" THEN <<cur>> \o SplitAt(s, n + 1, <<>>)
    ELSE SplitAt(s, n + 1, Append(cur, s[n]))

Split(s) == SplitAt(s, 1, <<>>)

\* ---------------------------------------------------- std::path (lexical)

DOT == <<".">>

DOTDOT == <<".", ".">>

ROOTDIR == <<"/">>

IsAbsolute(s) == Len(s) > 0 /\ s[1] = "/"

\* Path::components: RootDir for a leading "/", empty pieces dropped, "."
\* dropped unless it starts a relative path (CurDir), ".." kept (ParentDir).
Components(s) ==
    LET segs == Split(s)
        keep(n) == /\ segs[n] # <<>>
                   /\ (segs[n] = DOT => (n = 1 /\ ~IsAbsolute(s)))
        idx == {n \in 1..Len(segs) : keep(n)}
        RECURSIVE Pick(_)
        Pick(n) == IF n > Len(segs) THEN <<>>
                   ELSE IF n \in idx THEN <<segs[n]>> \o Pick(n + 1)
                   ELSE Pick(n + 1)
    IN  (IF IsAbsolute(s) THEN <<ROOTDIR>> ELSE <<>>) \o Pick(1)

\* PathBuf::push / Path::join on the raw strings.
Join(base, path) ==
    IF IsAbsolute(path) THEN path
    ELSE IF base = <<>> THEN path
    ELSE IF Last(base) = "/" THEN base \o path
    ELSE base \o <<"/">> \o path

\* The raw string with its trailing separators and trailing "/." dropped,
\* as Path::components ignores them.
RECURSIVE TrimEnd(_)
TrimEnd(s) ==
    IF Len(s) > 1 /\ Last(s) = "/" THEN TrimEnd(Front(s))
    ELSE IF Len(s) > 1 /\ Last(s) = "." /\ s[Len(s) - 1] = "/"
         THEN TrimEnd(Front(s))
    ELSE s

RECURSIVE DropLastPiece(_)
DropLastPiece(s) ==
    IF s = <<>> \/ Last(s) = "/" THEN s ELSE DropLastPiece(Front(s))

\* Path::parent: the path without its last component; None for "" and "/".
Parent(s) ==
    LET t == TrimEnd(s)
    IN  IF t = <<>> \/ t = <<"/">> THEN None
        ELSE Some(TrimEnd(DropLastPiece(t)))

\* Path::file_stem: the last component up to its last ".", unless the "."
\* leads the name.
RECURSIVE LastDot(_, _)
LastDot(seg, n) ==
    IF n < 1 THEN 0 ELSE IF seg[n] = "." THEN n ELSE LastDot(seg, n - 1)

file_stem(s) ==
    LET cs == Components(s)
    IN  IF cs = <<>> \/ Last(cs) \in {ROOTDIR, DOTDOT} THEN None
        ELSE LET seg == Last(cs)
                 d == LastDot(seg, Len(seg))
             IN  IF d <= 1 THEN Some(seg) ELSE Some(SubSeq(seg, 1, d - 1))


\* ------------------------------------------------- the filesystem (kernel)

\* The process's working directory, "/w".
Cwd == << <<"w">> >>

Node(f, loc) ==
    IF loc \in f.dirs THEN "dir"
    ELSE IF loc \in DOMAIN f.files THEN "file"
    ELSE "none"

\* The non-empty pieces of a raw path: what the kernel walks, "." and ".."
\* included.
KSegs(s) == SelectSeq(Split(s), LAMBDA seg : seg # <<>>)

StartOf(s) == IF IsAbsolute(s) THEN <<>> ELSE Cwd

Step(loc, seg) ==
    IF seg = DOT THEN loc
    ELSE IF seg = DOTDOT THEN (IF loc = <<>> THEN loc ELSE Front(loc))
    ELSE Append(loc, seg)

\* Walks segs from loc; every piece is looked up in a directory.
\* st: "ok", "noent" (a piece is missing), "notdir" (a piece is a file).
RECURSIVE Walk(_, _, _)
Walk(f, loc, segs) ==
    IF segs = <<>> THEN [st |-> "ok", loc |-> loc]
    ELSE IF Node(f, loc) = "none" THEN [st |-> "noent", loc |-> loc]
    ELSE IF Node(f, loc) = "file" THEN [st |-> "notdir", loc |-> loc]
    ELSE Walk(f, Step(loc, Head(segs)), Tail(segs))

\* A raw path that can only name a directory: it ends in "/", "." or "..".
MustBeDir(s) ==
    /\ s # <<>>
    /\ \/ Last(s) = "/"
       \/ (KSegs(s) # <<>> /\ Last(KSegs(s)) \in {DOT, DOTDOT})

\* stat(2): the kind of node the raw path names, "none" when the lookup
\* fails.
Stat(f, s) ==
    IF s = <<>> THEN "none"
    ELSE LET w == Walk(f, StartOf(s), KSegs(s))
         IN  IF w.st # "ok" THEN "none"
             ELSE IF MustBeDir(s) /\ Node(f, w.loc) # "dir" THEN "none"
             ELSE Node(f, w.loc)

\* Path::exists
exists(f, s) == Stat(f, s) # "none"

\* Path::is_dir
is_dir(f, s) == Stat(f, s) = "dir"

\* mkdir(2).  st: "ok", "noent", "exists", "notdir".
mkdir(f, s) ==
    LET segs == KSegs(s)
    IN  IF s = <<>> THEN [st |-> "noent", fs |-> f, ops |-> <<>>]
        ELSE IF segs = <<>> THEN [st |-> "exists", fs |-> f, ops |-> <<>>]
        ELSE
          LET w == Walk(f, StartOf(s), Front(segs))
              last == Last(segs)
              target == Step(w.loc, last)
          IN  IF w.st # "ok" THEN [st |-> w.st, fs |-> f, ops |-> <<>>]
              ELSE IF Node(f, w.loc) = "none"
                   THEN [st |-> "noent", fs |-> f, ops |-> <<>>]
              ELSE IF Node(f, w.loc) = "file"
                   THEN [st |-> "notdir", fs |-> f, ops |-> <<>>]
              ELSE IF last \in {DOT, DOTDOT} \/ Node(f, target) # "none"
                   THEN [st |-> "exists", fs |-> f, ops |-> <<>>]
              ELSE [st |-> "ok",
                    fs |-> [f EXCEPT !.dirs = @ \cup {target}],
                    ops |-> << [op |-> "mkdir", loc |-> target] >>]

\* fs::create_dir_all (std's DirBuilder::create_dir_all): mkdir, and on
\* NotFound the parent first; an error is forgiven when the path is a
\* directory after all.
RECURSIVE create_dir_all(_, _)
create_dir_all(f, s) ==
    IF Components(s) = <<>> THEN [err |-> FALSE, fs |-> f, ops |-> <<>>]
    ELSE
      LET m1 == mkdir(f, s)
      IN  IF m1.st = "ok" THEN [err |-> FALSE, fs |-> m1.fs, ops |-> m1.ops]
          ELSE IF m1.st # "noent"
               THEN [err |-> ~is_dir(f, s), fs |-> f, ops |-> <<>>]
          ELSE IF ~Parent(s).some THEN [err |-> TRUE, fs |-> f, ops |-> <<>>]
          ELSE
            LET up == create_dir_all(f, Parent(s).val)
            IN  IF up.err THEN up
                ELSE LET m2 == mkdir(up.fs, s)
                     IN  [err |-> m2.st # "ok" /\ ~is_dir(up.fs, s),
                          fs |-> m2.fs,
                          ops |-> up.ops \o m2.ops]

\* File::create without O_TRUNC: a file that is there keeps its content.
File_create_notrunc(f, s) ==
    LET segs == KSegs(s)
        bad == [err |-> TRUE, fs |-> f, ops |-> <<>>, loc |-> <<>>]
    IN  IF segs = <<>> \/ MustBeDir(s) THEN bad
        ELSE
          LET w == Walk(f, StartOf(s), Front(segs))
              target == Step(w.loc, Last(segs))
          IN  IF w.st # "ok" \/ Node(f, w.loc) # "dir" THEN bad
              ELSE IF Node(f, target) = "dir" THEN bad
              ELSE [err |-> FALSE,
                    fs |-> [f EXCEPT !.files =
                              [p \in DOMAIN @ \cup {target} |->
                                  IF p \in DOMAIN @ THEN @[p] ELSE <<>>]],
                    ops |-> << [op |-> IF Node(f, target) = "none"
                                       THEN "create" ELSE "open",
                                loc |-> target] >>,
                    loc |-> target]

\* fs::File::create: open(O_WRONLY | O_CREAT | O_TRUNC).  The file is made
\* if missing and emptied if present; loc is where the handle points.
File_create(f, s) ==
    LET segs == KSegs(s)
        bad == [err |-> TRUE, fs |-> f, ops |-> <<>>, loc |-> <<>>]
    IN  IF segs = <<>> \/ MustBeDir(s) THEN bad
        ELSE
          LET w == Walk(f, StartOf(s), Front(segs))
              target == Step(w.loc, Last(segs))
          IN  IF w.st # "ok" \/ Node(f, w.loc) # "dir" THEN bad
              ELSE IF Node(f, target) = "dir" THEN bad
              ELSE [err |-> FALSE,
                    fs |-> [f EXCEPT !.files =
                              [p \in DOMAIN @ \cup {target} |->
                                  IF p = target THEN <<>> ELSE @[p]]],
                    ops |-> << [op |-> IF Node(f, target) = "none"
                                       THEN "create" ELSE "truncate",
                                loc |-> target] >>,
                    loc |-> target]

\* write(2) of the bytes from the start of the file, where the handle of
\* File_create stands: what the file held beyond them stays.
write_all(f, loc, bytes) ==
    [f EXCEPT !.files =
        [@ EXCEPT ![loc] = bytes \o SubSeq(@, Len(bytes) + 1, Len(@))]]


\* ------------------------------------------------------- the zip crate

\* ZipArchive::by_index: the entry at a 0-based index; an error (None) when
\* the index is out of range or the entry's local header cannot be read.
by_index(archive, idx) ==
    IF idx >= 0 /\ idx < Len(archive) /\ archive[idx + 1].hdr
    THEN Some(archive[idx + 1])
    ELSE None

\* The depth reached by the components, -1 once a ".." climbs above the
\* start or a RootDir is met.
RECURSIVE Depth(_, _)
Depth(cs, d) ==
    IF cs = <<>> THEN d
    ELSE IF Head(cs) = ROOTDIR THEN -1
    ELSE IF Head(cs) = DOTDOT THEN (IF d = 0 THEN -1 ELSE Depth(Tail(cs), d - 1))
    ELSE IF Head(cs) = DOT THEN Depth(Tail(cs), d)
    ELSE Depth(Tail(cs), d + 1)

HasNul(name) == \E n \in 1..Len(name) : name[n] = "NUL"

\* enclosed_name without the count of ".." against the depth: only NUL and
\* absolute names are turned down.
enclosed_name_nodepth(name) ==
    IF HasNul(name) THEN None
    ELSE IF IsAbsolute(name) THEN None
    ELSE Some(name)

\* ZipFile::enclosed_name: the name as a path, unless it holds a NUL, is
\* absolute, or climbs with ".." above where it starts.
enclosed_name(name) ==
    IF HasNul(name) THEN None
    ELSE IF Depth(Components(name), 0) < 0 THEN None
    ELSE Some(name)

\* Read for ZipFile: the bytes the entry's stream yields, and whether it
\* ends in a decoding error (after `cut` bytes) instead of end of file.
read_stream(entry) ==
    IF entry.cut < 0 THEN [err |-> FALSE, bytes |-> entry.data]
    ELSE [err |-> TRUE, bytes |-> SubSeq(entry.data, 1, entry.cut)]

\* io::copy(&mut reader, &mut outfile): what was read before the error, if
\* any, is written.
io_copy(f, entry, loc) ==
    LET r == read_stream(entry)
    IN  [err |-> r.err,
         fs |-> write_all(f, loc, r.bytes),
         ops |-> IF r.bytes = <<>> THEN <<>>
                 ELSE << [op |-> "write", loc |-> loc] >>]

\* ---------------------------------------------------------- ZipExtractor

ends_with_slash(name) == name # <<>> /\ Last(name) = "/"

\* The closure joining the entry's raw name (file.name()) instead of its
\* enclosed name: no entry is skipped for its name.
PlanEntry_rawname(archive, out, idx) ==
    LET file == by_index(archive, idx)
    IN  IF ~file.some THEN <<>>
        ELSE << [path |-> Join(out, file.val.name),
                 kind |-> IF ends_with_slash(file.val.name)
                          THEN "Directory" ELSE "File",
                 size |-> Len(file.val.data),
                 index |-> idx] >>

\* The closure keeping the enclosed name as the path, without joining it to
\* the output directory.
PlanEntry_nojoin(archive, out, idx) ==
    LET file == by_index(archive, idx)
    IN  IF ~file.some THEN <<>>
        ELSE LET en == enclosed_name(file.val.name)
             IN  IF ~en.some THEN <<>>
                 ELSE << [path |-> en.val,
                          kind |-> IF ends_with_slash(file.val.name)
                                   THEN "Directory" ELSE "File",
                          size |-> Len(file.val.data),
                          index |-> idx] >>

\* The closure of get_extracted_files for index idx: the ExtractedFile of
\* the entry, or nothing when by_index fails or the name is not enclosed.
PlanEntry(archive, out, idx) ==
    LET file == by_index(archive, idx)
    IN  IF ~file.some THEN <<>>
        ELSE LET en == enclosed_name(file.val.name)
             IN  IF ~en.some THEN <<>>
                 ELSE << [path |-> Join(out, en.val),
                          kind |-> IF ends_with_slash(file.val.name)
                                   THEN "Directory" ELSE "File",
                          size |-> Len(file.val.data),
                          index |-> idx] >>

\* get_extracted_files as a whole: the closure over 0 .. len-1, collected.
RECURSIVE PlanFrom(_, _, _)
PlanFrom(archive, out, idx) ==
    IF idx >= Len(archive) THEN <<>>
    ELSE PlanEntry(archive, out, idx) \o PlanFrom(archive, out, idx + 1)

get_extracted_files(archive, out) == PlanFrom(archive, out, 0)

\* The Directory arm asking whether anything has the directory's name,
\* whatever its kind (the path taken without its trailing separator).
WriteDirectory_anykind(f, ef, refused) ==
    IF exists(f, TrimEnd(ef.path)) THEN [err |-> FALSE, fs |-> f, ops |-> <<>>]
    ELSE IF refused THEN [err |-> TRUE, fs |-> f, ops |-> <<>>]
    ELSE create_dir_all(f, ef.path)

\* The Directory arm without the exists() test and with fs::create_dir: a
\* directory that is there is an error.
WriteDirectory_noexists(f, ef, refused) ==
    IF refused THEN [err |-> TRUE, fs |-> f, ops |-> <<>>]
    ELSE LET m == mkdir(f, ef.path)
         IN  [err |-> m.st # "ok", fs |-> m.fs, ops |-> m.ops]

\* The Directory arm of write_extracted_files; refused is the environment
\* failing the filesystem call (permission denied, disk full).
WriteDirectory(f, ef, refused) ==
    IF exists(f, ef.path) THEN [err |-> FALSE, fs |-> f, ops |-> <<>>]
    ELSE IF refused THEN [err |-> TRUE, fs |-> f, ops |-> <<>>]
    ELSE create_dir_all(f, ef.path)

\* The File arm of write_extracted_files: File::create, by_index, io::copy,
\* each ending the arm on its error.
WriteFile(f, archive, ef, refused) ==
    IF refused THEN [err |-> TRUE, fs |-> f, ops |-> <<>>]
    ELSE
      LET c == File_create(f, ef.path)
      IN  IF c.err THEN [err |-> TRUE, fs |-> f, ops |-> <<>>]
          ELSE LET reader == by_index(archive, ef.index)
               IN  IF ~reader.some
                   THEN [err |-> TRUE, fs |-> c.fs, ops |-> c.ops]
                   ELSE LET cp == io_copy(c.fs, reader.val, c.loc)
                        IN  [err |-> cp.err, fs |-> cp.fs,
                             ops |-> c.ops \o cp.ops]

\* One iteration of the loop of write_extracted_files, without the
\* progress bar.
WriteEntry(f, archive, ef, refused) ==
    IF ef.kind = "Directory" THEN WriteDirectory(f, ef, refused)
    ELSE WriteFile(f, archive, ef, refused)

\* write_extracted_files from plan position pos (0-based) on: the
\* filesystem it leaves, whether it failed, and how many entries it
\* completed.  faultAt is the plan position the environment refuses, or -1.
RECURSIVE WriteFrom(_, _, _, _, _)
WriteFrom(f, archive, plan, pos, faultAt) ==
    IF pos >= Len(plan) THEN [err |-> FALSE, fs |-> f, done |-> pos]
    ELSE LET r == WriteEntry(f, archive, plan[pos + 1], pos = faultAt)
         IN  IF r.err THEN [err |-> TRUE, fs |-> r.fs, done |-> pos]
             ELSE WriteFrom(r.fs, archive, plan, pos + 1, faultAt)

\* The filesystem changes write_extracted_files makes from plan position
\* pos on, in order, each with the plan position it belongs to.
RECURSIVE OpsFrom(_, _, _, _, _)
OpsFrom(f, archive, plan, pos, faultAt) ==
    IF pos >= Len(plan) THEN <<>>
    ELSE LET r == WriteEntry(f, archive, plan[pos + 1], pos = faultAt)
             here == [n \in 1..Len(r.ops) |->
                        [op |-> r.ops[n].op, loc |-> r.ops[n].loc, at |-> pos]]
         IN  IF r.err THEN here
             ELSE here \o OpsFrom(r.fs, archive, plan, pos + 1, faultAt)

\* Result<Vec<ExtractedFile>, ExtractError>, the Vec by its length.
NoResult == [st |-> "running", count |-> 0]

Ok(n) == [st |-> "ok", count |-> n]

Err == [st |-> "err", count |-> 0]

\* ZipExtractor::extract as a function of its inputs: the Result (the plan's
\* length on Ok) and the filesystem left behind.
ExtractOutcome(archive, out, f, faultAt) ==
    LET plan == get_extracted_files(archive, out)
        w == WriteFrom(f, archive, plan, 0, faultAt)
    IN  [result |-> IF w.err THEN Err ELSE Ok(Len(plan)),
         fs |-> w.fs]

\* The output directory of extract(opt): the one given, or "." joined with
\* the input's file stem.
OutputDirOf(o) ==
    IF o.output_dir.some THEN o.output_dir.val
    ELSE Join(<<".">>, file_stem(o.input).val)

\* ProgressBar::new(len) of ZipExtractor::new, or None.
NewProgressBar(progress, archive) ==
    IF progress
    THEN [some |-> TRUE, len |-> Len(archive), pos |-> 0,
          finished |-> FALSE, count |-> 0]
    ELSE [some |-> FALSE, len |-> 0, pos |-> 0, finished |-> FALSE, count |-> 0]

\* An increment of two for an entry.
Inc_twice(pb) == IF pb.some THEN [pb EXCEPT !.pos = @ + 2] ELSE pb

\* pb.inc(1), when there is a bar.
Inc(pb) == IF pb.some THEN [pb EXCEPT !.pos = @ + 1] ELSE pb

\* finish_progress_bar reporting the bar's length, the number of entries of
\* the archive.
Finish_archivelen(pb, plan) ==
    IF pb.some THEN [pb EXCEPT !.finished = TRUE, !.count = pb.len] ELSE pb

\* finish_progress_bar: "Extracted {n} files", when there is a bar.
Finish(pb, plan) ==
    IF pb.some THEN [pb EXCEPT !.finished = TRUE, !.count = Len(plan)] ELSE pb


\* ------------------------------------------------------------ the inputs

D1 == <<1, 2>>

D2 == <<3>>

OLD == <<7, 8, 9>>

Entry(name, data) == [name |-> name, data |-> data, hdr |-> TRUE, cut |-> -1]

FileNames ==
    { <<"a">>, <<"d">>, <<"d", "/", "a">>, <<"d", "/", "e", "/", "a">>,
      <<"d", "/", ".", ".", "/", "a">> }

DirNames == { <<"d", "/">> }

UnsafeNames == { <<".", ".", "/", "a">>, <<"/", "a">> }

\* The entries archives are made of: files, directories, entries with an
\* unsafe name, one whose local header is unreadable and one whose stream
\* breaks after its first byte.
Entries ==
    {Entry(n, D1) : n \in FileNames \cup UnsafeNames}
      \cup {Entry(<<"a">>, D2)}
      \cup {Entry(n, <<>>) : n \in DirNames}
      \cup {[Entry(<<"a">>, D1) EXCEPT !.hdr = FALSE],
            [Entry(<<"d", "/", "a">>, D1) EXCEPT !.cut = 1]}

\* More archives of interest: the round trip of the specification, a
\* skipped entry between two written ones, a nested directory before its
\* parent, a name with a NUL, a name that starts with "./", the empty name,
\* a skipped entry between a directory and a file in it, a name that climbs
\* out after going down.
Curated ==
    { << Entry(<<"a">>, D1), Entry(<<"d", "/">>, <<>>),
         Entry(<<"d", "/", "a">>, D2) >>,
      << Entry(<<"a">>, D1), Entry(<<".", ".", "/", "a">>, D1),
         Entry(<<"a">>, D2) >>,
      << Entry(<<"d", "/", "e", "/">>, <<>>), Entry(<<"d", "/">>, <<>>) >>,
      << Entry(<<"a", "NUL">>, D1), Entry(<<"a">>, D2) >>,
      << Entry(<<".", "/", "a">>, D2) >>,
      << Entry(<<>>, D1) >>,
      << Entry(<<"d", "/">>, <<>>), Entry(<<".", ".", "/", "a">>, D1),
         Entry(<<"d", "/", "a">>, D2) >>,
      << Entry(<<"d", "/">>, <<>>),
         Entry(<<"d", "/", ".", ".", "/", ".", ".", "/", "a">>, D1) >> }

Archives == UNION {[1..n -> Entries] : n \in 0..MaxLen} \cup Curated

ZipFiles ==
    {[found |-> TRUE, valid |-> TRUE, entries |-> a] : a \in Archives}
      \cup {[found |-> b, valid |-> FALSE, entries |-> <<>>] : b \in BOOLEAN}

\* The command lines: archive x/z.zip with no output directory, or archive
\* z.zip with output directory "o", with and without --progress.
Opts ==
    {[input |-> <<"x", "/", "z", ".", "z", "i", "p">>, output_dir |-> None,
      progress |-> TRUE]}
      \cup [input : {<<"z", ".", "z", "i", "p">>},
           output_dir : {Some(<<"o">>)},
           progress : BOOLEAN]

\* Where a raw path leads when nothing on the way is missing.
RECURSIVE Steps(_, _)
Steps(loc, segs) ==
    IF segs = <<>> THEN loc ELSE Steps(Step(loc, Head(segs)), Tail(segs))

LocOf(s) == Steps(StartOf(s), KSegs(s))

\* The trees extraction starts in, around the destination root r: no root,
\* an empty root, a root with directory d, with file a, with a file at d.
Trees(r) ==
    LET base == {<<>>, Cwd}
        T(dirs, files) == [dirs |-> base \cup dirs, files |-> files]
        none == [p \in {} |-> <<>>]
    IN  { T({}, none),
          T({r}, none),
          T({r, Append(r, <<"d">>)}, none),
          T({r}, [p \in {Append(r, <<"a">>)} |-> OLD]),
          T({r}, [p \in {Append(r, <<"d">>)} |-> OLD]) }

\* The plan positions the environment may refuse; -1 is never.
Faults == {-1, 0, 1}

\* ------------------------------------------------------ the state machine

archive == zip_file.entries

NoBar == NewProgressBar(FALSE, <<>>)

Init ==
    /\ opt \in Opts
    /\ zip_file \in ZipFiles
    /\ fs \in Trees(LocOf(OutputDirOf(opt)))
    /\ fs0 = fs
    /\ fault \in Faults
    /\ pc = "start"
    /\ output_dir = <<>>
    /\ i = 0
    /\ extracted_files = <<>>
    /\ k = 0
    /\ progress_bar = NoBar
    /\ result = NoResult
    /\ ops = <<>>
    /\ run = 1
    /\ prev = [result |-> NoResult, fs |-> fs]

\* extract(opt) up to extractor.extract(): the output directory, File::open
\* and ZipExtractor::new, each ending the run on its error.
Start ==
    /\ pc = "start"
    /\ output_dir' = OutputDirOf(opt)
    /\ IF zip_file.found /\ zip_file.valid
       THEN /\ progress_bar' = NewProgressBar(opt.progress, archive)
            /\ pc' = "enumerate"
            /\ result' = result
       ELSE /\ progress_bar' = progress_bar
            /\ pc' = "aborted"
            /\ result' = Err
    /\ i' = 0
    /\ UNCHANGED <<opt, zip_file, fs, extracted_files, k, ops, fault, fs0,
                   run, prev>>

\* The closure of a single-pass extractor: the entry is planned and written
\* at once, before the next index is looked at.
Enumerate_streaming ==
    /\ pc = "enumerate"
    /\ i < Len(archive)
    /\ LET new == PlanEntry(archive, output_dir, i)
           r == IF new = <<>> THEN [err |-> FALSE, fs |-> fs, ops |-> <<>>]
                ELSE WriteEntry(fs, archive, new[1], FALSE)
       IN  /\ extracted_files' = extracted_files \o new
           /\ fs' = r.fs
           /\ ops' = ops \o [n \in 1..Len(r.ops) |->
                               [op |-> r.ops[n].op, loc |-> r.ops[n].loc,
                                at |-> Len(extracted_files)]]
    /\ i' = i + 1
    /\ UNCHANGED <<opt, zip_file, pc, output_dir, k, progress_bar,
                   result, fault, fs0, run, prev>>

\* get_extracted_files: the closure of filter_map for index i.
Enumerate ==
    /\ pc = "enumerate"
    /\ i < Len(archive)
    /\ extracted_files' = extracted_files \o PlanEntry(archive, output_dir, i)
    /\ i' = i + 1
    /\ UNCHANGED <<opt, zip_file, fs, pc, output_dir, k, progress_bar,
                   result, ops, fault, fs0, run, prev>>

\* get_extracted_files returns the collected plan; write_extracted_files
\* starts.
EnumerateDone ==
    /\ pc = "enumerate"
    /\ i = Len(archive)
    /\ pc' = "write"
    /\ k' = 0
    /\ UNCHANGED <<opt, zip_file, fs, output_dir, i, extracted_files,
                   progress_bar, result, ops, fault, fs0, run, prev>>

\* The iteration of the loop with the error of the entry dropped (no `?`):
\* the loop goes on to the next entry.
WriteNext_continue ==
    /\ pc = "write"
    /\ k < Len(extracted_files)
    /\ LET r == WriteEntry(fs, archive, extracted_files[k + 1], k = fault)
       IN  /\ fs' = r.fs
           /\ ops' = ops \o [n \in 1..Len(r.ops) |->
                               [op |-> r.ops[n].op, loc |-> r.ops[n].loc,
                                at |-> k]]
           /\ k' = k + 1
           /\ progress_bar' = Inc(progress_bar)
           /\ UNCHANGED <<pc, result>>
    /\ UNCHANGED <<opt, zip_file, output_dir, i, extracted_files, fault,
                   fs0, run, prev>>

\* The iteration with the match moved into `if let Some(pb)`: without a
\* bar the entry is passed over.
WriteNext_onlywithbar ==
    /\ pc = "write"
    /\ k < Len(extracted_files)
    /\ LET r == IF progress_bar.some
                THEN WriteEntry(fs, archive, extracted_files[k + 1], k = fault)
                ELSE [err |-> FALSE, fs |-> fs, ops |-> <<>>]
       IN  /\ fs' = r.fs
           /\ ops' = ops \o [n \in 1..Len(r.ops) |->
                               [op |-> r.ops[n].op, loc |-> r.ops[n].loc,
                                at |-> k]]
           /\ IF r.err
              THEN /\ pc' = "aborted"
                   /\ result' = Err
                   /\ UNCHANGED <<k, progress_bar>>
              ELSE /\ k' = k + 1
                   /\ progress_bar' = Inc(progress_bar)
                   /\ UNCHANGED <<pc, result>>
    /\ UNCHANGED <<opt, zip_file, output_dir, i, extracted_files, fault,
                   fs0, run, prev>>

\* The iteration trying its entry again after an error instead of
\* returning it.
WriteNext_retry ==
    /\ pc = "write"
    /\ k < Len(extracted_files)
    /\ LET r == WriteEntry(fs, archive, extracted_files[k + 1], k = fault)
       IN  /\ fs' = r.fs
           /\ ops' = ops \o [n \in 1..Len(r.ops) |->
                               [op |-> r.ops[n].op, loc |-> r.ops[n].loc,
                                at |-> k]]
           /\ IF r.err
              THEN UNCHANGED <<k, progress_bar, pc, result>>
              ELSE /\ k' = k + 1
                   /\ progress_bar' = Inc(progress_bar)
                   /\ UNCHANGED <<pc, result>>
    /\ UNCHANGED <<opt, zip_file, output_dir, i, extracted_files, fault,
                   fs0, run, prev>>

\* The loop undoing the run's changes when an entry fails.
WriteNext_rollback ==
    /\ pc = "write"
    /\ k < Len(extracted_files)
    /\ LET r == WriteEntry(fs, archive, extracted_files[k + 1], k = fault)
       IN  /\ fs' = IF r.err THEN fs0 ELSE r.fs
           /\ ops' = ops \o [n \in 1..Len(r.ops) |->
                               [op |-> r.ops[n].op, loc |-> r.ops[n].loc,
                                at |-> k]]
           /\ IF r.err
              THEN /\ pc' = "aborted"
                   /\ result' = Err
                   /\ UNCHANGED <<k, progress_bar>>
              ELSE /\ k' = k + 1
                   /\ progress_bar' = Inc(progress_bar)
                   /\ UNCHANGED <<pc, result>>
    /\ UNCHANGED <<opt, zip_file, output_dir, i, extracted_files, fault,
                   fs0, run, prev>>

\* The loop walking the plan from its end to its start.
WriteNext_reversed ==
    /\ pc = "write"
    /\ k < Len(extracted_files)
    /\ LET r == WriteEntry(fs, archive,
                           extracted_files[Len(extracted_files) - k],
                           k = fault)
       IN  /\ fs' = r.fs
           /\ ops' = ops \o [n \in 1..Len(r.ops) |->
                               [op |-> r.ops[n].op, loc |-> r.ops[n].loc,
                                at |-> k]]
           /\ IF r.err
              THEN /\ pc' = "aborted"
                   /\ result' = Err
                   /\ UNCHANGED <<k, progress_bar>>
              ELSE /\ k' = k + 1
                   /\ progress_bar' = Inc(progress_bar)
                   /\ UNCHANGED <<pc, result>>
    /\ UNCHANGED <<opt, zip_file, output_dir, i, extracted_files, fault,
                   fs0, run, prev>>

\* One iteration of the loop of write_extracted_files; its error ends
\* extract and the run.
WriteNext ==
    /\ pc = "write"
    /\ k < Len(extracted_files)
    /\ LET r == WriteEntry(fs, archive, extracted_files[k + 1], k = fault)
       IN  /\ fs' = r.fs
           /\ ops' = ops \o [n \in 1..Len(r.ops) |->
                               [op |-> r.ops[n].op, loc |-> r.ops[n].loc,
                                at |-> k]]
           /\ IF r.err
              THEN /\ pc' = "aborted"
                   /\ result' = Err
                   /\ UNCHANGED <<k, progress_bar>>
              ELSE /\ k' = k + 1
                   /\ progress_bar' = Inc(progress_bar)
                   /\ UNCHANGED <<pc, result>>
    /\ UNCHANGED <<opt, zip_file, output_dir, i, extracted_files, fault,
                   fs0, run, prev>>

\* The loop is over: finish_progress_bar, and extract returns the plan.
WriteDone ==
    /\ pc = "write"
    /\ k = Len(extracted_files)
    /\ progress_bar' = Finish(progress_bar, extracted_files)
    /\ result' = Ok(Len(extracted_files))
    /\ pc' = "done"
    /\ UNCHANGED <<opt, zip_file, fs, output_dir, i, extracted_files, k,
                   ops, fault, fs0, run, prev>>

\* main() is run again, with the same arguments, on the tree the last run
\* left.
Rerun ==
    /\ pc = "done"
    /\ run < MaxRuns
    /\ run' = run + 1
    /\ prev' = [result |-> result, fs |-> fs]
    /\ fs0' = fs
    /\ pc' = "start"
    /\ output_dir' = <<>>
    /\ i' = 0
    /\ extracted_files' = <<>>
    /\ k' = 0
    /\ progress_bar' = NoBar
    /\ result' = NoResult
    /\ ops' = <<>>
    /\ UNCHANGED <<opt, zip_file, fs, fault>>

Next ==
    \/ Start
    \/ Enumerate
    \/ EnumerateDone
    \/ WriteNext
    \/ WriteDone
    \/ Rerun

Spec == Init /\ [][Next]_vars

\* The steps of one run.  The program is sequential and synchronous: a run
\* that can take its next step takes it.  Whether main() is run again is
\* up to the caller.
RunStep == Start \/ Enumerate \/ EnumerateDone \/ WriteNext \/ WriteDone


\* ---------------------------------------------------- what the claims use

\* The destination root, as a location.
RootLoc == LocOf(OutputDirOf(opt))

\* The run got past File::open and ZipArchive::new.
Opened == zip_file.found /\ zip_file.valid

\* The run ended inside write_extracted_files, at plan position k.
AbortedAtK == pc = "aborted" /\ Opened /\ k < Len(extracted_files)

Positions == 0..(Len(extracted_files) - 1)

\* The locations plan position pos created, truncated or wrote.
TouchedAt(pos) == {ops[n].loc : n \in {m \in 1..Len(ops) : ops[m].at = pos}}

\* The content of the file a raw path names, None when it names no file.
read(f, s) ==
    IF Stat(f, s) = "file" THEN Some(f.files[Walk(f, StartOf(s), KSegs(s)).loc])
    ELSE None

\* The parent directory of the entry the run aborted at is missing, could
\* have been created, and the environment refused nothing.
AbortedOnMissingParent ==
    /\ AbortedAtK
    /\ k # fault
    /\ LET ef == extracted_files[k + 1]
       IN  /\ ef.kind = "File"
           /\ Parent(ef.path).some
           /\ ~exists(fs, Parent(ef.path).val)
           /\ ~create_dir_all(fs, Parent(ef.path).val).err

\* C1: a File target whose ancestor directories below the destination root
\* are missing (and could be created) never makes extract fail: the
\* ancestors are created and the file is written.
C1_MissingParentNeverFails ==
    ~(/\ AbortedOnMissingParent
      /\ LocOf(Parent(extracted_files[k + 1].path).val) # RootLoc
      /\ Node(fs0, RootLoc) = "dir")

\* Every location the walk of raw path s passes after its first `from`
\* pieces lies in the destination root.
StaysInside(s, from) ==
    \A m \in from..Len(KSegs(s)) :
        IsPrefix(RootLoc, Steps(StartOf(s), SubSeq(KSegs(s), 1, m)))

\* C2: every location created, truncated or written is the destination
\* root or below it, and every planned path is the output directory joined
\* with its entry's name, a walk that never leaves the root.
C2_TraversalSafety ==
    /\ \A n \in 1..Len(ops) : IsPrefix(RootLoc, ops[n].loc)
    /\ \A p \in Positions :
          LET ef == extracted_files[p + 1]
          IN  /\ ef.path = Join(output_dir, archive[ef.index + 1].name)
              /\ StaysInside(ef.path, Len(KSegs(output_dir)))

\* An entry with an unsafe name was enumerated, an entry leaving and
\* re-entering a directory with ".." was written, and the run is over.
C2_Witness ==
    /\ pc = "done"
    /\ \E n \in 1..Len(archive) : ~enclosed_name(archive[n].name).some
    /\ \E p \in Positions :
          /\ DOTDOT \in {KSegs(extracted_files[p + 1].path)[m] :
                           m \in 1..Len(KSegs(extracted_files[p + 1].path))}
          /\ TouchedAt(p) # {}

\* C3: a top-level File target never makes extract fail because the
\* destination root does not exist when extract starts: the root is
\* created and the file written.
C3_RootNeedNotPreExist ==
    ~(/\ AbortedOnMissingParent
      /\ LocOf(Parent(extracted_files[k + 1].path).val) = RootLoc
      /\ Node(fs0, RootLoc) = "none")

\* C4: when extract returns success, every Directory target is a directory
\* on disk and every File target holds the whole content of a File entry
\* planned for that location.
C4_SuccessPostcondition ==
    pc = "done" =>
      \A p \in Positions :
         LET ef == extracted_files[p + 1]
         IN  IF ef.kind = "Directory" THEN is_dir(fs, ef.path)
             ELSE \E q \in Positions :
                    LET eq == extracted_files[q + 1]
                    IN  /\ eq.kind = "File"
                        /\ LocOf(eq.path) = LocOf(ef.path)
                        /\ read(fs, ef.path) = Some(archive[eq.index + 1].data)

\* A successful run over a tree that held a file, with a Directory and a
\* File target in the plan.
C4_Witness ==
    /\ pc = "done"
    /\ DOMAIN fs0.files # {}
    /\ \E p, q \in Positions :
          /\ extracted_files[p + 1].kind = "Directory"
          /\ extracted_files[q + 1].kind = "File"

\* C5: a failure at plan position k ends the run with an error, there and
\* then: nothing at a later position is created, opened or written, the
\* filesystem is the one the failing step left, and a run that returns
\* success had no failing step.
C5_AbortOnFirstFailure ==
    LET w == WriteFrom(fs0, archive, extracted_files, 0, fault)
    IN  /\ \A n \in 1..Len(ops) : ops[n].at <= k
        /\ pc = "write" => \A n \in 1..Len(ops) : ops[n].at < k
        /\ AbortedAtK => /\ result = Err
                         /\ w.err
                         /\ w.done = k
                         /\ fs = w.fs
        /\ pc = "done" => ~w.err /\ w.done = k /\ fs = w.fs

\* The run aborted at a position with an entry written before it and an
\* entry planned after it.
C5_Witness ==
    /\ AbortedAtK
    /\ k >= 1
    /\ k + 1 < Len(extracted_files)
    /\ TouchedAt(0) # {}


\* The plan positions holding archive index idx.
PlannedAt(idx) == {p \in Positions : extracted_files[p + 1].index = idx}

\* C6: an enumerated index is left out of the plan only when its entry was
\* fetched and its name failed resolution; any other failure to fetch the
\* entry ends the run with an error.
C6_OnlyUnsafeNamesSkipped ==
    \A idx \in 0..(i - 1) :
        PlannedAt(idx) = {} =>
            \/ archive[idx + 1].hdr /\ ~enclosed_name(archive[idx + 1].name).some
            \/ pc = "aborted" /\ result = Err

\* A declared name that cannot be resolved under the destination root: it
\* holds a NUL, is absolute, or its walk from the root leaves the root.
Unresolvable(name) ==
    \/ HasNul(name)
    \/ IsAbsolute(name)
    \/ ~StaysInside(Join(OutputDirOf(opt), name), Len(KSegs(OutputDirOf(opt))))

Remove(seq, n) == SubSeq(seq, 1, n - 1) \o SubSeq(seq, n + 1, Len(seq))

\* C7: for every entry of the archive whose name cannot be resolved, the
\* run ends with the result (success or error, count) and the filesystem
\* that extracting the archive without that entry gives.
C7_SkippingLeavesNoTrace ==
    (pc \in {"done", "aborted"} /\ Opened) =>
        \A n \in 1..Len(archive) :
            (archive[n].hdr /\ Unresolvable(archive[n].name)) =>
                ExtractOutcome(Remove(archive, n), output_dir, fs0, fault)
                    = [result |-> result, fs |-> fs]

\* A successful run that wrote something from an archive with an
\* unresolvable name before its last entry.
C7_Witness ==
    /\ pc = "done"
    /\ ops # <<>>
    /\ \E n \in 1..(Len(archive) - 1) :
          archive[n].hdr /\ Unresolvable(archive[n].name)

\* Plan position q is the last File target of its location.
LastFor(q) ==
    /\ extracted_files[q + 1].kind = "File"
    /\ \A r \in Positions :
          (r > q /\ extracted_files[r + 1].kind = "File")
              => LocOf(extracted_files[r + 1].path) # LocOf(extracted_files[q + 1].path)

\* Plan positions p < q are File targets of one location.
Duplicate(p, q) ==
    /\ p < q
    /\ extracted_files[p + 1].kind = "File"
    /\ extracted_files[q + 1].kind = "File"
    /\ LocOf(extracted_files[p + 1].path) = LocOf(extracted_files[q + 1].path)

\* C8: after a successful run, a location two or more File entries of the
\* plan resolve to holds exactly the content of the one with the highest
\* index.
C8_LastEntryWins ==
    pc = "done" =>
        \A p, q \in Positions :
            (Duplicate(p, q) /\ LastFor(q)) =>
                read(fs, extracted_files[q + 1].path)
                    = Some(archive[extracted_files[q + 1].index + 1].data)

\* A successful run with two File entries of one location, the earlier
\* longer than the later, over a file that was there and longer still.
C8_Witness ==
    /\ pc = "done"
    /\ \E p, q \in Positions :
          /\ Duplicate(p, q)
          /\ Len(archive[extracted_files[p + 1].index + 1].data)
               > Len(archive[extracted_files[q + 1].index + 1].data)
          /\ LocOf(extracted_files[q + 1].path) \in DOMAIN fs0.files

\* The plan positions whose entry was created or written in this run.
Written == {p \in Positions : TouchedAt(p) # {}}

\* C9 as stated: on success the count returned, and the one of the
\* finished event, is the number of plan entries created or written
\* during the run.
C9_CountIsEntriesWritten ==
    pc = "done" =>
        /\ result.count = Cardinality(Written)
        /\ progress_bar.some => progress_bar.count = Cardinality(Written)

\* C9 as amended: on success the count returned, and the one of the
\* finished event, is the length of the plan: one for every entry that was
\* fetched and whose name resolves, each of them created or written in the
\* run or a Directory target found to be there already.
C9_CountIsPlanLength ==
    pc = "done" =>
        /\ result = Ok(Len(extracted_files))
        /\ k = Len(extracted_files)
        /\ result.count = Cardinality({n \in 1..Len(archive) :
                              archive[n].hdr /\ ~Unresolvable(archive[n].name)})
        /\ progress_bar.some => /\ progress_bar.finished
                                /\ progress_bar.count = result.count
        /\ \A p \in Positions \ Written :
              /\ extracted_files[p + 1].kind = "Directory"
              /\ is_dir(fs0, extracted_files[p + 1].path)
                   \/ \E q \in Written : q < p

\* A successful run with the bar, an entry skipped for its name, an entry
\* written and a Directory target that was there already.
C9_Witness ==
    /\ pc = "done"
    /\ progress_bar.some
    /\ Written # {}
    /\ Positions \ Written # {}
    /\ \E n \in 1..Len(archive) : Unresolvable(archive[n].name)

\* C10: a run of extract after a successful one, same archive and same
\* destination, succeeds too, with the same result, and leaves the tree as
\* the first run left it.
C10_Idempotent ==
    run >= 2 =>
        /\ pc # "aborted"
        /\ pc = "done" => (result = prev.result /\ fs = prev.fs)

\* The second run is over; it met a Directory target and wrote a File
\* target.
C10_Witness ==
    /\ run = 2
    /\ pc = "done"
    /\ \E p \in Positions : extracted_files[p + 1].kind = "Directory"
    /\ \E p \in Written : extracted_files[p + 1].kind = "File"

\* C11: the progress reporter is there only once every index of the
\* archive has been enumerated, and its total is the length of the plan.
C11_ProgressSizedToPlan ==
    progress_bar.some =>
        /\ i = Len(archive)
        /\ progress_bar.len = Len(extracted_files)

\* C12: nothing of the filesystem is changed before every index of the
\* archive has been enumerated and the plan is complete.
C12_TwoPass ==
    /\ pc \in {"start", "enumerate"} => (fs = fs0 /\ ops = <<>>)
    /\ (fs # fs0 \/ ops # <<>>) =>
          /\ i = Len(archive)
          /\ extracted_files = get_extracted_files(archive, output_dir)

\* The first entry of a plan of two or more has been written, the second
\* not yet.
C12_Witness ==
    /\ pc = "write"
    /\ k = 1
    /\ Len(archive) >= 2
    /\ Len(extracted_files) >= 2
    /\ fs # fs0

\* C13: the sequence of filesystem changes, the final filesystem and the
\* result of a run are those given by the archive, the output directory,
\* the initial filesystem and the environment alone, whether opt.progress
\* is set or not: a run with the bar and a run without it, from the same
\* inputs, agree on all three.
C13_ProgressIsObserver ==
    pc \in {"done", "aborted"} =>
        IF Opened
        THEN /\ [result |-> result, fs |-> fs]
                  = ExtractOutcome(archive, OutputDirOf(opt), fs0, fault)
             /\ ops = OpsFrom(fs0, archive,
                              get_extracted_files(archive, OutputDirOf(opt)),
                              0, fault)
        ELSE result = Err /\ fs = fs0 /\ ops = <<>>

\* A run without the bar is over, after two or more filesystem changes.
C13_Witness ==
    /\ pc \in {"done", "aborted"}
    /\ ~opt.progress
    /\ Len(ops) >= 2

\* The pieces of a declared name that name something: "" and "." dropped.
Normalized(name) ==
    SelectSeq(Split(name), LAMBDA seg : seg \notin {<<>>, DOT})

\* A declared name with no traversal and no absolute-path component.
PlainName(name) ==
    /\ ~IsAbsolute(name)
    /\ \A n \in 1..Len(Split(name)) : Split(name)[n] # DOTDOT

Terminal == pc \in {"done", "aborted"}

\* What is left of a run, at most: the phases to go, then the indices to
\* enumerate and the plan positions to write.
Remaining ==
    LET phase == CASE pc = "start" -> 3
                   [] pc = "enumerate" -> 2
                   [] pc = "write" -> 1
                   [] OTHER -> 0
    IN  phase * (2 * Len(archive) + 1) + (Len(archive) - i) + (Len(archive) - k)

\* A state meets the guard of one of the steps of a run.  The updates of
\* the steps are total functions of the state, so the guard is all a step
\* needs.
CanStep ==
    \/ pc = "start"
    \/ pc = "enumerate" /\ i <= Len(archive)
    \/ pc = "write" /\ k <= Len(extracted_files)

\* C15: a run that is not over can take a step, and every step of a run
\* brings it strictly closer to its end, so a run of a finite archive
\* reaches a terminal state, where no step of the run is left; the
\* terminal state is "done" with Ok or "aborted" with Err; a step of the
\* loop either completes its entry and moves to the next or ends the run,
\* so no entry is processed twice; and once the run is over its filesystem
\* stays as it is (until main() is run again).
C15_RunTerminates ==
    /\ [](~Terminal => CanStep)
    /\ [](Remaining >= 0 /\ (Terminal => ~ENABLED RunStep))
    /\ [][~Terminal => Remaining' < Remaining]_vars
    /\ []((pc = "done") <=> (result.st = "ok"))
    /\ []((pc = "aborted") <=> (result.st = "err"))
    /\ [][pc = "write" =>
            \/ pc' = "write" /\ k' = k + 1 /\ k' <= Len(extracted_files)
            \/ pc' = "aborted" /\ k' = k
            \/ pc' = "done" /\ k' = k /\ k = Len(extracted_files) /\ fs' = fs]_vars
    /\ [][Terminal =>
            /\ fs' = fs
            /\ pc = "done" /\ pc' = "start" /\ run' = run + 1]_vars

\* A run is over with success after writing two or more entries.
C15_Witness ==
    /\ pc = "done"
    /\ Cardinality(Written) >= 2

\* ---------------------------------------------------------------- C16

\* The sibling of the input archive named after its stem.
SiblingOf(input) == Join(Parent(input).val, file_stem(input).val)

\* C16: when no output directory is given, the destination root is the
\* sibling of the input archive: the archive's parent directory joined
\* with its file stem.
C16_DefaultIsSibling ==
    (pc # "start" /\ ~opt.output_dir.some)
        => LocOf(output_dir) = LocOf(SiblingOf(opt.input))

\* ---------------------------------------------------------------- C17

\* The plan holds archive indices below the one enumeration is at, each
\* larger than the one before it.
PlanAscending ==
    /\ \A p \in Positions :
          /\ extracted_files[p + 1].index >= 0
          /\ extracted_files[p + 1].index < i
          /\ i <= Len(archive)
    /\ \A p, q \in Positions :
          p < q => extracted_files[p + 1].index < extracted_files[q + 1].index

\* The filesystem calls made so far, in the order they were made, belong to
\* plan positions in ascending order, none beyond the position the loop is
\* at; a call on a file is on the target of its position's entry, and only
\* a Directory entry makes directories.
OpsInPlanOrder ==
    /\ \A n \in 1..Len(ops) :
          /\ ops[n].at \in Positions
          /\ ops[n].at <= k
          /\ pc # "aborted" => ops[n].at < k
          /\ ops[n].op = "mkdir"
                => extracted_files[ops[n].at + 1].kind = "Directory"
          /\ ops[n].op # "mkdir"
                => /\ extracted_files[ops[n].at + 1].kind = "File"
                   /\ ops[n].loc = LocOf(extracted_files[ops[n].at + 1].path)
    /\ \A m, n \in 1..Len(ops) : m < n => ops[m].at <= ops[n].at

\* C17: the plan is a strictly ascending subsequence of the archive
\* indices, grown by enumeration one index at a time; the write phase
\* leaves the plan alone and works on one position at a time in plan
\* order, every call of a step belonging to the position the loop is at.
C17_PlanOrder ==
    /\ [](PlanAscending /\ OpsInPlanOrder)
    /\ [][pc = "enumerate" =>
            \/ extracted_files' = extracted_files
            \/ /\ Len(extracted_files') = Len(extracted_files) + 1
               /\ SubSeq(extracted_files', 1, Len(extracted_files))
                     = extracted_files
               /\ Last(extracted_files').index = i]_vars
    /\ [][pc = "write" =>
            /\ extracted_files' = extracted_files
            /\ Len(ops') >= Len(ops)
            /\ SubSeq(ops', 1, Len(ops)) = ops
            /\ \A n \in (Len(ops) + 1)..Len(ops') : ops'[n].at = k]_vars

\* A finished run whose plan skips an archive index between two entries
\* with different targets, both of them created or written.
C17_Witness ==
    /\ pc = "done"
    /\ \E p, q \in Written :
          /\ p < q
          /\ extracted_files[q + 1].index > extracted_files[p + 1].index + 1
          /\ LocOf(extracted_files[p + 1].path)
                # LocOf(extracted_files[q + 1].path)

\* ---------------------------------------------------------------- C18

\* Location loc is the same thing, with the same content, in f and g.
SameAt(f, g, loc) ==
    /\ Node(f, loc) = Node(g, loc)
    /\ Node(f, loc) = "file" => f.files[loc] = g.files[loc]

\* The filesystem as the plan positions before k left it.
BeforeK ==
    WriteFrom(fs0, archive, SubSeq(extracted_files, 1, k), 0, fault).fs

\* The locations created, truncated or written by plan positions before k.
ProducedBeforeK == UNION {TouchedAt(p) : p \in 0..(k - 1)}

\* Every location of the initial tree, of the tree the positions before k
\* left, and of the tree the run left.
AllLocs ==
    UNION {f.dirs \cup DOMAIN f.files : f \in {fs0, BeforeK, fs}}

\* C18 as stated: after an abort at plan position k, whatever the positions
\* before k produced is as they left it, and every location no position up
\* to k touched is as it was before the run.
C18_NoRollbackAsStated ==
    AbortedAtK =>
        /\ \A loc \in ProducedBeforeK : SameAt(fs, BeforeK, loc)
        /\ \A loc \in AllLocs \ (ProducedBeforeK \cup TouchedAt(k)) :
              SameAt(fs, fs0, loc)

\* C18: after an abort at plan position k, whatever the positions before k
\* produced is as they left it, except where position k itself had started
\* on the same location, which is still there, as the failing step left
\* it; every location no position up to k touched is as it was before the
\* run.
C18_NoRollback ==
    AbortedAtK =>
        /\ \A loc \in ProducedBeforeK \ TouchedAt(k) :
              SameAt(fs, BeforeK, loc)
        /\ \A loc \in TouchedAt(k) : Node(fs, loc) # "none"
        /\ \A loc \in AllLocs \ (ProducedBeforeK \cup TouchedAt(k)) :
              SameAt(fs, fs0, loc)

\* The run aborted in the middle of an entry, after an earlier position
\* had produced something elsewhere.
C18_Witness ==
    /\ AbortedAtK
    /\ k >= 1
    /\ TouchedAt(k) # {}
    /\ ProducedBeforeK \ TouchedAt(k) # {}

\* ---------------------------------------------------------------- C19

\* C19: with --progress, the increments emitted so far are as many as the
\* plan entries the loop has completed, directories and files alike, and
\* never more than the total the bar was made with; the finished event
\* comes only after every plan entry was processed, on a run that
\* succeeded, never on one that aborted.  Without --progress there is no
\* bar.
C19_ProgressCounter ==
    /\ progress_bar.some => opt.progress
    /\ (opt.progress /\ pc \in {"enumerate", "write", "done"})
           => progress_bar.some
    /\ progress_bar.some =>
          /\ progress_bar.pos = k
          /\ progress_bar.pos <= Len(extracted_files)
          /\ progress_bar.pos <= progress_bar.len
          /\ progress_bar.finished <=> pc = "done"
          /\ progress_bar.finished
                => /\ k = Len(extracted_files)
                   /\ result.st = "ok"

\* The loop is under way with a bar: a Directory entry that was there
\* already has been counted, and an entry is still to come.
C19_Witness ==
    /\ progress_bar.some
    /\ pc = "write"
    /\ k >= 1
    /\ k < Len(extracted_files)
    /\ extracted_files[1].kind = "Directory"
    /\ TouchedAt(0) = {}

=============================================================================
